---- MODULE Spec2Model ----
(***************************************************************************)
(* Model of the workout bot: app/time_utils.py (local time -> UTC),        *)
(* app/scheduler.py (WorkoutScheduler on top of APScheduler), and the      *)
(* daily-log handlers of app/bot.py over app/database.py.                  *)
(*                                                                         *)
(* Time is counted in whole hours since 00:00 UTC of day 0.  A time of day *)
(* "HH:MM" is the hour 0..DayLen-1; a datetime is an absolute hour.        *)
(*                                                                         *)
(* Python values that the code passes around with different types are      *)
(* tagged: a scheduler bound is either [kind |-> "str", v |-> hour of day] *)
(* (what scheduler.py's signatures declare) or [kind |-> "datetime",       *)
(* v |-> absolute hour] (what time_utils.py returns and bot.py passes).    *)
(*                                                                         *)
(* APScheduler is a library: the model assumes its documented behaviour.   *)
(* add_job(id=..., replace_existing=True) replaces the job with that id; a *)
(* DateTrigger job is removed from the store when it is submitted; a run   *)
(* time that is more than misfire_grace_time (1 s) in the past is skipped; *)
(* an exception in a job is caught and logged by the executor.             *)
(***************************************************************************)
EXTENDS Integers, Sequences, FiniteSets, TLC

VARIABLES
    now,        \* the clock: absolute hour (UTC)
    running,    \* AsyncIOScheduler.running
    jobs,       \* the scheduler's job store: a set of job records
    inflight,   \* job() coroutines suspended in `await self.on_trigger(chat_id)`
    last_ev,    \* what the last step did (an observation, not program state)
    calls,      \* number of calls of the scheduler's arming methods so far
    users,      \* table users: the chat ids that have a row
    plans,      \* table weekly_plan: per user, the set of its day rows
    plan_start, \* users.plan_start_date
    pool,       \* table additional_exercises: per user, the exercise list
    logs,       \* table daily_logs: per (user, date), the row or NoLog
    runs,       \* number of runs of the handlers so far
    prefs,      \* table users: per chat, the notification columns of its row
    fsm,        \* aiogram FSM storage: per chat, the state and its data
    polling,    \* on_startup has returned and the dispatcher takes updates
    awaiting    \* the handler runs suspended at an await between their read
                \* of the log and their write

sched_vars == <<running, jobs, inflight, calls>>
db_vars == <<users, plans, plan_start, pool, logs>>
pref_vars == <<prefs, fsm, polling>>
vars == <<now, last_ev, sched_vars, db_vars, runs, pref_vars, awaiting>>

----------------------------------------------------------------------------
\* Bounds of the model

\* the clock stops at this hour
MaxTime == 26

\* calls of schedule_fixed, schedule_range and _range_job that the model
\* follows, over all chats
MaxCalls == 2

\* Program constants

\* dt.timedelta(days=1), in hours
DayLen == 24

Chats == {1, 2}
\* the chats that write to the bot: one more than the MAX_USERS seats
AllChats == Chats \cup {3}

\* the hours of each day at which the model looks at the clock
ClockHours == {0, 1, 2, 23}

None == "None"

\* the HH:MM values the model feeds to schedule_fixed
TimeStrs == {9, 23}

\* the <<start, end>> HH:MM pairs the model feeds to schedule_range and to
\* _range_job: a window inside one day and a window across midnight
RangeStrs == {<<0, 2>>, <<23, 1>>}

----------------------------------------------------------------------------
\* app/time_utils.py

\* The zones the model resolves (ZoneInfo(name)); any other name raises.
ZoneNames == {"UTC", "Europe/Moscow", "Europe/Berlin"}

\* Europe/Berlin goes from UTC+1 to UTC+2 at 01:00 UTC of day 1.
DstAt == DayLen + 1

\* A zone whose clocks go back: Australia/Sydney goes from UTC+11 to UTC+10 at
\* 16:00 UTC of day 7 (the wall clock shows 02:00 to 03:00 of day 8 twice).
FallBackZone == "Australia/Sydney"

FallBackAt == 7 * DayLen + 16

\* The names ZoneInfo resolves in the conversion and settings models
AllZones == ZoneNames \cup {FallBackZone}

\* utcoffset of an instant given in UTC (datetime.now(tzinfo), astimezone(tz))
UtcOffset(zone, u) ==
    CASE zone = "UTC" -> 0
      [] zone = "Europe/Moscow" -> 3
      [] zone = "Europe/Berlin" -> IF u < DstAt THEN 1 ELSE 2
      [] zone = FallBackZone -> IF u < FallBackAt THEN 11 ELSE 10

\* utcoffset of a wall-clock datetime with fold=0: a wall time inside the gap
\* of a forward transition takes the offset in force before the transition,
\* and so does a wall time that a backward transition repeats
WallOffset(zone, w) ==
    CASE zone = "UTC" -> 0
      [] zone = "Europe/Moscow" -> 3
      [] zone = "Europe/Berlin" -> IF w < DstAt + 2 THEN 1 ELSE 2
      [] zone = FallBackZone -> IF w < FallBackAt + 11 THEN 11 ELSE 10

DateOf(t) == t \div DayLen

TimeOfDay(t) == t % DayLen

\* dt.datetime.combine(date, time)
Combine(date, tod) == date * DayLen + tod

\* ZoneInfo(timezone or "Europe/Moscow")
ZoneOf(timezone) == IF timezone = None THEN "Europe/Moscow" ELSE timezone

\* _normalize_local_datetime at the instant t: the wall-clock datetime of the
\* next occurrence of time_str; datetimes of one zone compare by wall clock
NormalizeLocalDatetime(time_str, timezone, t) ==
    LET zone == ZoneOf(timezone)
        now_local == t + UtcOffset(zone, t)
        candidate == Combine(DateOf(now_local), time_str)
    IN  IF candidate <= now_local THEN candidate + DayLen ELSE candidate

\* local_dt.astimezone(dt.timezone.utc)
AsUtc(wall, timezone) == wall - WallOffset(ZoneOf(timezone), wall)

\* convert_local_time_to_utc at the instant t; returns a datetime
ConvertLocalTimeToUtc(time_str, timezone, t) ==
    AsUtc(NormalizeLocalDatetime(time_str, timezone, t), timezone)

\* convert_range_to_utc at the instant t; returns a pair of datetimes
ConvertRangeToUtc(start, end, timezone, t) ==
    LET start_dt == NormalizeLocalDatetime(start, timezone, t)
        end_0 == Combine(DateOf(start_dt), end)
        end_dt == IF end_0 <= start_dt THEN end_0 + DayLen ELSE end_0
    IN  <<AsUtc(start_dt, timezone), AsUtc(end_dt, timezone)>>

----------------------------------------------------------------------------
\* app/scheduler.py

Str(v) == [kind |-> "str", v |-> v]

Datetime(v) == [kind |-> "datetime", v |-> v]

\* x.split(":") exists for a str only; on a datetime it raises AttributeError
HasSplit(x) == x.kind = "str"

\* f"notify-{chat_id}"
JobId(chat_id) == chat_id

NoEvent == [op |-> "none"]

\* scheduler.add_job(func, trigger) with no id given: nothing is replaced
AddJobNoId(store, job) == store \cup {job}

\* scheduler.add_job(func, trigger, id=job.id, replace_existing=True)
AddJob(store, job) == {j \in store : j.id # job.id} \cup {job}

\* The datetimes _range_job computes at the instant t from bounds given as
\* HH:MM strings: <<start_dt, end_dt>> after both adjustments
RangeWindow(start_utc, end_utc, t) ==
    LET today == DateOf(t)
        start_0 == Combine(today, start_utc.v)
        end_0 == Combine(today, end_utc.v)
        end_1 == IF end_0 <= start_0 THEN end_0 + DayLen ELSE end_0
    IN  IF t >= end_1 THEN <<start_0 + DayLen, end_1 + DayLen>>
                      ELSE <<start_0, end_1>>

\* span_seconds of the window _range_job computes at the instant t
SpanOf(start_utc, end_utc, t) ==
    LET w == RangeWindow(start_utc, end_utc, t) IN w[2] - w[1]

\* The job _range_job arms at the instant t when random.randint(0,
\* span_seconds) returns r.  win_start and win_end are its locals start_dt
\* and end_dt.  prev is bookkeeping: the origin of the job ("call" or
\* "rearm"), the window of the firing that re-armed it, and whether that
\* firing's job had been replaced by a later call when it re-armed.
RangeJobRecord(chat_id, start_utc, end_utc, t, r, prev) ==
    LET w == RangeWindow(start_utc, end_utc, t)
    IN  [id |-> JobId(chat_id), chat |-> chat_id, mode |-> "range",
         start |-> start_utc, end |-> end_utc,
         run_date |-> w[1] + r, win_start |-> w[1], win_end |-> w[2],
         armed_at |-> t, origin |-> prev.origin, prev_start |-> prev.win_start,
         prev_end |-> prev.win_end, stale |-> prev.stale]

\* _range_job raises at line 26 or 27 unless both bounds are str
RangeJobRaises(start_utc, end_utc) == ~HasSplit(start_utc) \/ ~HasSplit(end_utc)

\* The job schedule_fixed arms from a utc_time that is a str: a daily cron at
\* that UTC hour and minute; run_date is its next fire time at or after t
FixedJobRecord(chat_id, utc_time, t) ==
    LET today_at == Combine(DateOf(t), utc_time.v)
    IN  [id |-> JobId(chat_id), chat |-> chat_id, mode |-> "fixed",
         start |-> utc_time, end |-> utc_time,
         run_date |-> IF today_at >= t THEN today_at ELSE today_at + DayLen,
         win_start |-> -1, win_end |-> -1,
         armed_at |-> t, origin |-> "call", prev_start |-> -1,
         prev_end |-> -1, stale |-> FALSE]

\* a job created by a call of the scheduler's API, not by a re-arm
ByCall == [origin |-> "call", win_start |-> -1, win_end |-> -1, stale |-> FALSE]

\* a job created by the re-arm of the firing f
ByRearm(f) ==
    [origin |-> "rearm", win_start |-> f.win_start, win_end |-> f.win_end,
     stale |-> f.stale]

\* the jobs of the store that are armed for chat_id
JobsOf(store, chat_id) == {j \in store : j.chat = chat_id}

\* observations of a call: it returned or it raised; had is the number of
\* jobs that were armed for chat_id when it was entered
Returned(op, chat_id, args) ==
    [op |-> op, chat |-> chat_id, raised |-> FALSE, args |-> args,
     had |-> Cardinality(JobsOf(jobs, chat_id))]

Raised(op, chat_id, args) ==
    [op |-> op, chat |-> chat_id, raised |-> TRUE, args |-> args,
     had |-> Cardinality(JobsOf(jobs, chat_id))]

\* The firings of chat_id that are in flight while a call arms a new job for
\* chat_id: the job they came from has been replaced
Superseded(flying, chat_id) ==
    {IF f.chat = chat_id THEN [f EXCEPT !.stale = TRUE] ELSE f : f \in flying}

\* The body of _range_job at the current instant, entered from op
RangeJob(chat_id, start_utc, end_utc, op, args, prev, flying) ==
    IF RangeJobRaises(start_utc, end_utc)
    THEN /\ last_ev' = Raised(op, chat_id, args)
         /\ jobs' = jobs
         /\ inflight' = flying
    ELSE /\ \E r \in 0..SpanOf(start_utc, end_utc, now) :
              jobs' = AddJob(jobs, RangeJobRecord(chat_id, start_utc, end_utc, now, r, prev))
         /\ last_ev' = Returned(op, chat_id, args)
         /\ inflight' = IF prev.origin = "call"
                        THEN Superseded(flying, chat_id) ELSE flying

\* schedule_fixed(chat_id, local_time, timezone)
ScheduleFixed(chat_id, local_time, timezone) ==
    LET utc_time == Datetime(ConvertLocalTimeToUtc(local_time, timezone, now))
        args == <<local_time, timezone>>
    IN  /\ calls < MaxCalls
        /\ calls' = calls + 1
        /\ IF ~HasSplit(utc_time)
           THEN /\ last_ev' = Raised("schedule_fixed", chat_id, args)
                /\ UNCHANGED <<jobs, inflight>>
           ELSE /\ jobs' = AddJob(jobs, FixedJobRecord(chat_id, utc_time, now))
                /\ last_ev' = Returned("schedule_fixed", chat_id, args)
                /\ inflight' = Superseded(inflight, chat_id)
        /\ UNCHANGED <<now, running, db_vars, runs, pref_vars, awaiting>>

\* schedule_range(chat_id, start_local, end_local, timezone)
ScheduleRange(chat_id, start_local, end_local, timezone) ==
    LET utc == ConvertRangeToUtc(start_local, end_local, timezone, now)
    IN  /\ calls < MaxCalls
        /\ calls' = calls + 1
        /\ RangeJob(chat_id, Datetime(utc[1]), Datetime(utc[2]), "schedule_range",
                    <<start_local, end_local, timezone>>, ByCall, inflight)
        /\ UNCHANGED <<now, running, db_vars, runs, pref_vars, awaiting>>

\* _range_job(chat_id, start_utc, end_utc) called with the HH:MM strings its
\* signature declares
RangeJobCall(chat_id, start_utc, end_utc) ==
    /\ calls < MaxCalls
    /\ calls' = calls + 1
    /\ RangeJob(chat_id, Str(start_utc), Str(end_utc), "_range_job",
                <<start_utc, end_utc>>, ByCall, inflight)
    /\ UNCHANGED <<now, running, db_vars, runs, pref_vars, awaiting>>

\* start()
Start ==
    /\ ~running
    /\ running' = TRUE
    /\ last_ev' = NoEvent
    /\ UNCHANGED <<now, jobs, inflight, calls, db_vars, runs, pref_vars,
                   awaiting>>

\* shutdown() that stops the scheduler and leaves the job store as it is
ShutdownKeepsJobs ==
    /\ running
    /\ running' = FALSE
    /\ last_ev' = [op |-> "shutdown", dropped |-> 0]
    /\ UNCHANGED <<now, jobs, inflight, calls, db_vars, runs, pref_vars,
                   awaiting>>

\* shutdown(): the job store is emptied. The coroutines in flight go on, or
\* the executor cancels them at their await, depending on the library build
Shutdown ==
    /\ running
    /\ running' = FALSE
    /\ jobs' = {}
    /\ inflight' \in {inflight, {}}
    /\ last_ev' = [op |-> "shutdown", dropped |-> Cardinality(jobs)]
    /\ UNCHANGED <<now, calls, db_vars, runs, pref_vars, awaiting>>

\* The job store after the job j has been submitted at its run time: a
\* DateTrigger has no next fire time, a daily cron has the next day's
AfterSubmit(store, j) ==
    IF j.mode = "range" THEN store \ {j}
    ELSE (store \ {j}) \cup {[j EXCEPT !.run_date = @ + DayLen]}

\* The scheduler runs a due job: job() of _wrap starts and suspends in
\* `await self.on_trigger(chat_id)`
Fire(chat_id) ==
    /\ running
    /\ \E j \in jobs :
         /\ j.chat = chat_id
         /\ j.run_date = now
         /\ jobs' = AfterSubmit(jobs, j)
         /\ inflight' = inflight \cup
              {[chat |-> j.chat, mode |-> j.mode, start |-> j.start, end |-> j.end,
                win_start |-> j.win_start, win_end |-> j.win_end,
                stale |-> j.stale]}
         /\ last_ev' = [op |-> "fire", chat |-> chat_id, job |-> j]
    /\ UNCHANGED <<now, running, calls, db_vars, runs, pref_vars, awaiting>>

\* The scheduler meets a job whose run time has passed: the run is skipped
\* (misfire_grace_time) and the callback is not invoked
Misfire(chat_id) ==
    /\ running
    /\ \E j \in jobs :
         /\ j.chat = chat_id
         /\ j.run_date < now
         /\ jobs' = AfterSubmit(jobs, j)
         /\ last_ev' = [op |-> "misfire", chat |-> chat_id, job |-> j]
    /\ UNCHANGED <<now, running, inflight, calls, db_vars, runs, pref_vars,
                   awaiting>>

\* How `await self.on_trigger(chat_id)` can end: scheduled_push returns, it
\* returns after safe_send swallowed TelegramForbiddenError, or it raises
Outcomes == {"ok", "forbidden", "error"}

\* safe_send that lets TelegramForbiddenError through like any other error
SafeSendRethrows(outcome) == outcome # "ok"

\* safe_send(bot, chat_id, text): `except TelegramForbiddenError: return`;
\* every other exception leaves it and scheduled_push
SafeSendRaises(outcome) == outcome \notin {"ok", "forbidden"}

\* job() of _wrap resumes after the await: on a raise the coroutine ends, on
\* a return it re-arms a range job
DispatchDone(f, outcome) ==
    /\ f \in inflight
    /\ IF ~SafeSendRaises(outcome) /\ f.mode = "range"
       THEN RangeJob(f.chat, f.start, f.end, "rearm", <<f, outcome>>, ByRearm(f),
                     inflight \ {f})
       ELSE /\ last_ev' = [op |-> "no_rearm", chat |-> f.chat, args |-> <<f, outcome>>]
            /\ inflight' = inflight \ {f}
            /\ jobs' = jobs
    /\ UNCHANGED <<now, running, calls, db_vars, runs, pref_vars, awaiting>>

\* The next hour at which the model looks at the clock
NextHour(t) ==
    CHOOSE u \in (t + 1)..(t + DayLen) :
        /\ TimeOfDay(u) \in ClockHours
        /\ \A v \in (t + 1)..(u - 1) : TimeOfDay(v) \notin ClockHours

\* Time passes. A running scheduler handles the jobs that are due first.
Tick ==
    /\ NextHour(now) <= MaxTime
    /\ running => \A j \in jobs : j.run_date > now
    /\ now' = NextHour(now)
    /\ last_ev' = NoEvent
    /\ UNCHANGED <<running, jobs, inflight, calls, db_vars, runs, pref_vars,
                   awaiting>>

----------------------------------------------------------------------------
\* app/database.py: the tables the daily-log handlers read and write

\* the last date (day number of `now`) the handlers are run on
MaxDay == 1

\* the largest button index a callback query carries (0-based)
MaxIndex == 2

\* the dates of the logs: the days the handlers run on and one day more, for
\* a user who comes back after more than one day
Days == 0..(MaxDay + 1)

\* the daily-log handlers are run at most this many times
MaxRuns == 5

Sessions == {"main", "additional"}

\* An optional value: a missing dict key, a NULL column, an argument left at
\* its default None
Absent == [given |-> FALSE]
Given(v) == [given |-> TRUE, v |-> v]

\* An exercise dict: "done" and "points" are optional keys
Exercise(name, points) == [name |-> name, done |-> Absent, points |-> points]

\* ex.get("done", False)
ExDone(ex) == ex.done.given /\ ex.done.v

\* ex.get("points", 1)
ExPoints(ex) == IF ex.points.given THEN ex.points.v ELSE 1

FALLBACK_WORKOUT ==
    <<Exercise("Otzhimaniya", Absent), Exercise("Prisedaniya", Absent),
      Exercise("Planka", Absent)>>

\* The value of daily_logs.exercises_done after json.loads: a list, or a dict
\* from session name to list (json.dumps / json.loads keep both shapes)
ListValue(xs) == [kind |-> "list", keys |-> {}, main |-> xs, additional |-> <<>>]
DictValue(keys, main, additional) ==
    [kind |-> "dict", keys |-> keys, main |-> main, additional |-> additional]

NoLog == [exists |-> FALSE]

\* load_daily_log(user_id, date)
LoadDailyLog(store, user_id, date) ==
    IF <<user_id, date>> \in DOMAIN store THEN store[<<user_id, date>>] ELSE NoLog

\* Python truth of an integer
Truthy(n) == n # 0

\* update_daily_log whose upsert keeps the stored points when none are
\* passed: VALUES (?, ?, ?, ?, ?) with points = COALESCE(excluded.points,
\* daily_logs.points)
UpdateDailyLogKeepsPoints(store, user_id, date, exercises_done, difficulty_rate, points) ==
    LET old == store[<<user_id, date>>]
        row == IF old.exists
               THEN [exists |-> TRUE, exercises_done |-> exercises_done,
                     difficulty_rate |-> IF difficulty_rate.given
                                         THEN difficulty_rate.v
                                         ELSE old.difficulty_rate,
                     points |-> IF points.given THEN points.v ELSE old.points]
               ELSE [exists |-> TRUE, exercises_done |-> exercises_done,
                     difficulty_rate |-> IF difficulty_rate.given
                                         THEN difficulty_rate.v ELSE None,
                     points |-> IF points.given THEN points.v ELSE 0]
    IN  [store EXCEPT ![<<user_id, date>>] = row]

\* update_daily_log(user_id, date, exercises_done, difficulty_rate, points):
\* INSERT ... VALUES (?, ?, ?, ?, COALESCE(?, 0)) ON CONFLICT DO UPDATE.
\* excluded.points is the value of the VALUES list, so it is 0, never NULL,
\* when no points are passed: COALESCE(excluded.points, daily_logs.points)
\* then takes that 0 and not the stored points.
UpdateDailyLog(store, user_id, date, exercises_done, difficulty_rate, points) ==
    LET old == store[<<user_id, date>>]
        excluded_points == IF points.given THEN points.v ELSE 0
        row == IF old.exists
               THEN [exists |-> TRUE,
                     exercises_done |-> exercises_done,
                     difficulty_rate |-> IF difficulty_rate.given
                                         THEN difficulty_rate.v
                                         ELSE old.difficulty_rate,
                     points |-> excluded_points]
               ELSE [exists |-> TRUE,
                     exercises_done |-> exercises_done,
                     difficulty_rate |-> IF difficulty_rate.given
                                         THEN difficulty_rate.v ELSE None,
                     points |-> IF points.given THEN points.v ELSE 0]
    IN  [store EXCEPT ![<<user_id, date>>] = row]

\* add_points(user_id, date, points): UPDATE of the row, if there is one
AddPoints(store, user_id, date, points) ==
    IF store[<<user_id, date>>].exists
    THEN [store EXCEPT ![<<user_id, date>>].points = @ + points]
    ELSE store

\* plan_length(user_id)
PlanLength(rows) == Cardinality(rows)

NoPlan == <<>>

\* get_plan_day(user_id, day_index): None, or a 3-tuple
GetPlanDay(rows, day_index) ==
    IF \A r \in rows : r.day_index # day_index
    THEN NoPlan
    ELSE LET row == CHOOSE r \in rows : r.day_index = day_index
         IN  IF row.is_rest_day
             THEN <<TRUE, <<>>, row.title>>
             ELSE <<FALSE, row.exercise_list, row.title>>

\* get_plan_for_date with a remainder that truncates toward zero, as `%` does
\* in C and Java, instead of Python's floored `%`
GetPlanForDateTruncating(rows, target_date, start_date) ==
    LET total_days == PlanLength(rows)
        start_dt == IF start_date.given THEN start_date.v ELSE target_date
        delta == target_date - start_dt
        index == IF delta >= 0 THEN (delta % total_days) + 1
                 ELSE 1 - ((0 - delta) % total_days)
    IN  IF total_days = 0 THEN NoPlan ELSE GetPlanDay(rows, index)

\* get_plan_for_date(user_id, target_date, start_date)
GetPlanForDate(rows, target_date, start_date) ==
    LET total_days == PlanLength(rows)
        start_dt == IF start_date.given THEN start_date.v ELSE target_date
        delta == target_date - start_dt
        index == (delta % total_days) + 1
    IN  IF total_days = 0 THEN NoPlan ELSE GetPlanDay(rows, index)

\* replace_plan(user_id, plan, start_date): the rows written for the items
PlanRows(plan) ==
    {[day_index |-> plan[i].day_index, title |-> plan[i].title,
      exercise_list |-> plan[i].exercises, is_rest_day |-> FALSE] :
        i \in 1..Len(plan)}

----------------------------------------------------------------------------
\* app/bot.py: helpers of the daily-log handlers

MAX_USERS == 2

\* users.additional_tasks_count, at its column default
AdditionalTasksCount == 1

\* _log_exercises(log, session)
LogExercises(log, session) ==
    IF ~log.exists THEN <<>>
    ELSE LET exercises == log.exercises_done
         IN  IF exercises.kind = "dict"
             THEN IF session \notin exercises.keys THEN <<>>
                  ELSE IF session = "main" THEN exercises.main
                  ELSE exercises.additional
             ELSE IF session = "main" THEN exercises.main ELSE <<>>

\* _store_log_exercises(log, session, exercises)
StoreLogExercises(log, session, exercises) ==
    LET existing_0 == IF log.exists THEN log.exercises_done
                      ELSE DictValue({}, <<>>, <<>>)
        existing == IF existing_0.kind # "dict"
                    THEN DictValue({"main"}, existing_0.main, <<>>)
                    ELSE existing_0
    IN  IF session = "main"
        THEN DictValue(existing.keys \cup {session}, exercises, existing.additional)
        ELSE DictValue(existing.keys \cup {session}, existing.main, exercises)

\* close_previous_day_if_pending that writes "skipped" whatever tag is
\* stored
ClosePreviousDayAlwaysSkipped(store, user_id, today) ==
    LET yesterday == today - 1
        previous_log == LoadDailyLog(store, user_id, yesterday)
    IN  IF ~previous_log.exists THEN store
        ELSE IF Truthy(previous_log.points) THEN store
        ELSE UpdateDailyLog(store, user_id, yesterday,
                            previous_log.exercises_done,
                            Given("skipped"), Given(0))

\* close_previous_day_if_pending that passes the stored difficulty_rate on
\* without the `or "skipped"`
ClosePreviousDayKeepsTag(store, user_id, today) ==
    LET yesterday == today - 1
        previous_log == LoadDailyLog(store, user_id, yesterday)
    IN  IF ~previous_log.exists THEN store
        ELSE IF Truthy(previous_log.points) THEN store
        ELSE UpdateDailyLog(store, user_id, yesterday,
                            previous_log.exercises_done, Absent, Given(0))

\* close_previous_day_if_pending(user_id, today): the table afterwards
ClosePreviousDayIfPending(store, user_id, today) ==
    LET yesterday == today - 1
        previous_log == LoadDailyLog(store, user_id, yesterday)
    IN  IF ~previous_log.exists THEN store
        ELSE IF Truthy(previous_log.points) THEN store
        ELSE UpdateDailyLog(store, user_id, yesterday,
                            previous_log.exercises_done,
                            Given(IF previous_log.difficulty_rate # None
                                  THEN previous_log.difficulty_rate ELSE "skipped"),
                            Given(0))

\* main(): dp.update.middleware(AccessMiddleware()).  The middleware is
\* registered on the update observer, so the event it is called with is the
\* Update, not the Message or the CallbackQuery inside it.
MiddlewareEvent == "Update"

\* hasattr(event, "chat"): of the events of the dispatcher a Message has the
\* attribute chat; an Update (message, callback_query, ...) and a
\* CallbackQuery (message.chat) have none
HasChat(event) == event = "Message"

\* AccessMiddleware.__call__: the handler is called for the chat
Admitted(chat_id) ==
    \/ ~HasChat(MiddlewareEvent)
    \/ chat_id \in users
    \/ Cardinality(users) < MAX_USERS

\* ensure_profile(message): the users table afterwards
EnsureProfile(chat_id) == users \cup {chat_id}

\* random.sample(population, k): the lists of k items at distinct positions
Samples(population, k) ==
    {[i \in 1..k |-> population[f[i]]] :
        f \in {g \in [1..k -> 1..Len(population)] :
                 \A a, b \in 1..k : a # b => g[a] # g[b]}}

Min(a, b) == IF a <= b THEN a ELSE b

\* item["done"] = False for every item
NotDone(exercises) ==
    [i \in 1..Len(exercises) |-> [exercises[i] EXCEPT !.done = Given(FALSE)]]

\* sum(ex.get("points", 1) for ex in exercises if ex.get("done"))
RECURSIVE PointsOf(_)
PointsOf(exercises) ==
    IF exercises = <<>> THEN 0
    ELSE (IF ExDone(Head(exercises)) THEN ExPoints(Head(exercises)) ELSE 0)
         + PointsOf(Tail(exercises))

\* observations of a handler run: it returned having sent the messages
\* `sent`, or it raised; before is today's log row when it was entered
Handled(op, chat_id, args, before, sent) ==
    [op |-> op, chat |-> chat_id, raised |-> FALSE, args |-> args,
     before |-> before, sent |-> sent]

Failed(op, chat_id, args, before, sent) ==
    [op |-> op, chat |-> chat_id, raised |-> TRUE, args |-> args,
     before |-> before, sent |-> sent]

----------------------------------------------------------------------------
\* app/bot.py: the handlers

\* today_plan(message, state): the buttons "plan for today" and "additional
\* workout"
TodayPlan(chat_id, is_additional) ==
    LET today == DateOf(now)
        before == LoadDailyLog(logs, chat_id, today)
        closed == ClosePreviousDayIfPending(logs, chat_id, today)
        existing_log == LoadDailyLog(closed, chat_id, today)
        stored_extra == LogExercises(existing_log, "additional")
        extra_pool == pool[chat_id]
        count == Min(AdditionalTasksCount, Len(extra_pool))
        plan == GetPlanForDate(plans[chat_id], today, plan_start[chat_id])
        is_rest == IF plan = NoPlan THEN FALSE ELSE plan[1]
        stored == LogExercises(existing_log, "main")
        exercises == IF existing_log.exists /\ stored # <<>> THEN stored
                     ELSE IF plan = NoPlan THEN FALLBACK_WORKOUT ELSE plan[2]
        notice == IF plan = NoPlan THEN <<"plan_unavailable">> ELSE <<>>
        args == <<is_additional>>
    IN  /\ Admitted(chat_id)
        /\ users' = EnsureProfile(chat_id)
        /\ IF is_additional
           THEN IF stored_extra # <<>>
                THEN /\ logs' = closed
                     /\ last_ev' = Handled("today_plan", chat_id, args, before,
                                           <<"additional_workout">>)
                ELSE IF extra_pool = <<>>
                THEN /\ logs' = closed
                     /\ last_ev' = Handled("today_plan", chat_id, args, before,
                                           <<"no_additional">>)
                ELSE /\ \E selected \in Samples(extra_pool, count) :
                          logs' = UpdateDailyLog(closed, chat_id, today,
                                      StoreLogExercises(existing_log, "additional",
                                                        NotDone(selected)),
                                      Absent,
                                      Given(IF existing_log.exists
                                            THEN existing_log.points ELSE 0))
                     /\ last_ev' = Handled("today_plan", chat_id, args, before,
                                           <<"additional_workout">>)
           ELSE IF existing_log.exists /\ Truthy(existing_log.points)
                THEN /\ logs' = closed
                     /\ last_ev' = Handled("today_plan", chat_id, args, before,
                                           <<"already_saved">>)
                ELSE IF is_rest
                THEN /\ logs' = closed
                     /\ last_ev' = Handled("today_plan", chat_id, args, before,
                                           notice \o <<"rest">>)
                ELSE /\ logs' = UpdateDailyLog(closed, chat_id, today,
                                    StoreLogExercises(existing_log, "main", exercises),
                                    Absent, Absent)
                     /\ last_ev' = Handled("today_plan", chat_id, args, before,
                                           notice \o <<"workout">>)
        /\ runs < MaxRuns
        /\ runs' = runs + 1
        /\ UNCHANGED <<now, sched_vars, pref_vars, plans, plan_start, pool,
                   awaiting>>

\* handle_exercise_callback(callback, callback_data): a button of the
\* exercises keyboard; index -1 is "skip the day"
HandleExerciseCallback(chat_id, session, index, completed_arg) ==
    LET today == DateOf(now)
        log == LoadDailyLog(logs, chat_id, today)
        exercises == LogExercises(log, session)
        completed_0 == [i \in 1..Len(exercises) |-> ExDone(exercises[i])]
        completed == [completed_0 EXCEPT ![index + 1] = completed_arg]
        marked == [i \in 1..Len(exercises) |->
                     [exercises[i] EXCEPT !.done = Given(completed[i])]]
        all_done == \A i \in 1..Len(exercises) : completed[i]
        saved == UpdateDailyLog(logs, chat_id, today,
                                StoreLogExercises(log, session, marked),
                                Absent, Absent)
        points == PointsOf(marked)
        args == <<session, index, completed_arg>>
    IN  /\ IF chat_id \notin users
           THEN /\ logs' = logs
                /\ last_ev' = Handled("exercise_callback", chat_id, args, log,
                                      <<"no_profile">>)
           ELSE IF ~log.exists
           THEN /\ logs' = logs
                /\ last_ev' = Handled("exercise_callback", chat_id, args, log,
                                      <<"plan_not_found">>)
           ELSE IF index = -1
           THEN IF session = "additional"
                THEN /\ logs' = logs
                     /\ last_ev' = Handled("exercise_callback", chat_id, args, log,
                                           <<"additional_cancelled">>)
                ELSE IF Truthy(log.points)
                THEN /\ logs' = logs
                     /\ last_ev' = Handled("exercise_callback", chat_id, args, log,
                                           <<"already_completed">>)
                ELSE /\ logs' = UpdateDailyLog(logs, chat_id, today,
                                    StoreLogExercises(log, session, exercises),
                                    Given("skipped"), Given(0))
                     /\ last_ev' = Handled("exercise_callback", chat_id, args, log,
                                           <<"day_skipped">>)
           ELSE IF index >= Len(exercises)      \* completed[index]: IndexError
           THEN /\ logs' = logs
                /\ last_ev' = Failed("exercise_callback", chat_id, args, log, <<>>)
           ELSE IF all_done
           THEN /\ logs' = IF session = "additional"
                           THEN AddPoints(saved, chat_id, today, points)
                           ELSE UpdateDailyLog(saved, chat_id, today,
                                    StoreLogExercises(log, session, marked),
                                    Given("completed"), Given(points))
                /\ last_ev' = Handled("exercise_callback", chat_id, args, log,
                                      <<"finished", "menu">>)
           ELSE /\ logs' = saved
                /\ last_ev' = Handled("exercise_callback", chat_id, args, log,
                                      <<"workout">>)
        /\ runs < MaxRuns
        /\ runs' = runs + 1
        /\ UNCHANGED <<now, sched_vars, pref_vars, users, plans, plan_start, pool,
                   awaiting>>

\* `a, b = value`: unpacking into two names raises unless there are two items
UnpackPairRaises(value) == Len(value) # 2

\* scheduled_push(bot, chat_id): the dispatch callback of the scheduler
ScheduledPush(chat_id) ==
    LET today == DateOf(now)
        before == LoadDailyLog(logs, chat_id, today)
        closed == ClosePreviousDayIfPending(logs, chat_id, today)
        plan == GetPlanForDate(plans[chat_id], today, plan_start[chat_id])
        existing_log == LoadDailyLog(closed, chat_id, today)
        stored == LogExercises(existing_log, "main")
        exercises == IF plan = NoPlan
                     THEN IF existing_log.exists THEN stored ELSE FALLBACK_WORKOUT
                     ELSE IF existing_log.exists /\ stored # <<>> THEN stored
                     ELSE plan[2]
        notice == IF plan = NoPlan THEN <<"plan_unavailable">> ELSE <<>>
    IN  /\ IF chat_id \notin users
           THEN /\ logs' = logs
                /\ last_ev' = Handled("scheduled_push", chat_id, <<>>, before, <<>>)
           ELSE IF plan # NoPlan /\ UnpackPairRaises(plan)
           THEN /\ logs' = closed
                /\ last_ev' = Failed("scheduled_push", chat_id, <<>>, before, <<>>)
           ELSE IF plan # NoPlan /\ plan[1]
           THEN /\ logs' = closed
                /\ last_ev' = Handled("scheduled_push", chat_id, <<>>, before,
                                      <<"rest">>)
           ELSE IF existing_log.exists /\ Truthy(existing_log.points)
           THEN /\ logs' = closed
                /\ last_ev' = Handled("scheduled_push", chat_id, <<>>, before, notice)
           ELSE /\ logs' = UpdateDailyLog(closed, chat_id, today,
                               ListValue(exercises), Absent, Absent)
                /\ last_ev' = Handled("scheduled_push", chat_id, <<>>, before,
                                      notice \o <<"workout">>)
        /\ runs < MaxRuns
        /\ runs' = runs + 1
        /\ UNCHANGED <<now, sched_vars, pref_vars, users, plans, plan_start, pool,
                   awaiting>>

\* What parse_plan_content returns for the uploaded files of the model: a
\* plan of days 1 and 2 (the exercise of day 1 is written with 0 points), a
\* plan whose only day is numbered 2, an empty file
PlanFiles ==
    {[plan_days |-> <<[day_index |-> 1, title |-> "A",
                       exercises |-> <<Exercise("Rastyazhka", Given(0))>>],
                      [day_index |-> 2, title |-> "B",
                       exercises |-> <<Exercise("Podtyagivaniya", Given(2))>>]>>,
      extras |-> <<Exercise("Vypady", Given(1))>>],
     [plan_days |-> <<[day_index |-> 2, title |-> "B",
                       exercises |-> <<Exercise("Beg", Absent)>>]>>,
      extras |-> <<Exercise("Vypady", Given(1))>>],
     [plan_days |-> <<>>, extras |-> <<>>]}

\* handle_plan_file(message, state, bot) for a readable document
HandlePlanFile(chat_id, file) ==
    LET today == DateOf(now)
        before == LoadDailyLog(logs, chat_id, today)
    IN  /\ Admitted(chat_id)
        /\ IF file.plan_days = <<>>
           THEN /\ UNCHANGED <<users, plans, plan_start, pool>>
                /\ last_ev' = Handled("plan_file", chat_id, <<file>>, before,
                                      <<"no_days">>)
           ELSE /\ users' = EnsureProfile(chat_id)
                /\ plans' = [plans EXCEPT ![chat_id] = PlanRows(file.plan_days)]
                /\ plan_start' = [plan_start EXCEPT ![chat_id] = Given(today)]
                /\ pool' = [pool EXCEPT ![chat_id] = file.extras]
                /\ last_ev' = Handled("plan_file", chat_id, <<file>>, before,
                                      <<"plan_saved">>)
        /\ runs < MaxRuns
        /\ runs' = runs + 1
        /\ UNCHANGED <<now, sched_vars, pref_vars, logs, awaiting>>

\* Midnight passes: dt.date.today() is the next date
NextDay ==
    /\ DateOf(now) < MaxDay
    /\ now' = (DateOf(now) + 1) * DayLen
    /\ last_ev' = NoEvent
    /\ UNCHANGED <<sched_vars, db_vars, runs, pref_vars, awaiting>>

\* n midnights pass while no handler runs for the user: nobody asks for the
\* plan and no push fires (no notification is configured, or the arming
\* failed)
DaysPass(n) ==
    /\ DateOf(now) + n \in Days
    /\ now' = (DateOf(now) + n) * DayLen
    /\ last_ev' = NoEvent
    /\ UNCHANGED <<sched_vars, db_vars, runs, pref_vars, awaiting>>

----------------------------------------------------------------------------
\* app/bot.py: the handlers as coroutines.  The dispatcher runs every update
\* in a task of its own and the scheduler runs scheduled_push in the same
\* loop, so a handler suspended at an await lets the other handlers run.
\* today_plan and scheduled_push await the "plan unavailable" message between
\* load_daily_log and update_daily_log; handle_exercise_callback and the
\* additional branch of today_plan have no await between the two.

\* the locals of a suspended run
Frame(op, chat_id, today, existing_log, exercises) ==
    [op |-> op, chat |-> chat_id, date |-> today,
     existing_log |-> existing_log, exercises |-> exercises]

\* today_plan for the main session, no plan for today: from its entry to
\* `await message.answer("plan unavailable")`
TodayPlanBegin(chat_id) ==
    LET today == DateOf(now)
        before == LoadDailyLog(logs, chat_id, today)
        closed == ClosePreviousDayIfPending(logs, chat_id, today)
        existing_log == LoadDailyLog(closed, chat_id, today)
        plan == GetPlanForDate(plans[chat_id], today, plan_start[chat_id])
        stored == LogExercises(existing_log, "main")
        exercises == IF existing_log.exists /\ stored # <<>> THEN stored
                     ELSE FALLBACK_WORKOUT
    IN  /\ Admitted(chat_id)
        /\ plan = NoPlan
        /\ ~(existing_log.exists /\ Truthy(existing_log.points))
        /\ runs < MaxRuns
        /\ runs' = runs + 1
        /\ users' = EnsureProfile(chat_id)
        /\ logs' = closed
        /\ awaiting' = awaiting \cup
                         {Frame("today_plan", chat_id, today, existing_log, exercises)}
        /\ last_ev' = Handled("today_plan_await", chat_id, <<FALSE>>, before,
                              <<"plan_unavailable">>)
        /\ UNCHANGED <<now, sched_vars, pref_vars, plans, plan_start, pool>>

\* today_plan from that await to its end: the write of the list and the
\* workout message
TodayPlanEnd(f) ==
    LET before == LoadDailyLog(logs, f.chat, f.date)
    IN  /\ f \in awaiting
        /\ f.op = "today_plan"
        /\ awaiting' = awaiting \ {f}
        /\ logs' = UpdateDailyLog(logs, f.chat, f.date,
                       StoreLogExercises(f.existing_log, "main", f.exercises),
                       Absent, Absent)
        /\ last_ev' = Handled("today_plan", f.chat, <<FALSE>>, before,
                              <<"plan_unavailable", "workout">>)
        /\ UNCHANGED <<now, sched_vars, pref_vars, users, plans, plan_start, pool,
                       runs>>

\* scheduled_push, no plan for today: from its entry to
\* `await safe_send(bot, chat_id, "plan unavailable")`
ScheduledPushBegin(chat_id) ==
    LET today == DateOf(now)
        before == LoadDailyLog(logs, chat_id, today)
        closed == ClosePreviousDayIfPending(logs, chat_id, today)
        plan == GetPlanForDate(plans[chat_id], today, plan_start[chat_id])
        existing_log == LoadDailyLog(closed, chat_id, today)
        exercises == IF existing_log.exists
                     THEN LogExercises(existing_log, "main")
                     ELSE FALLBACK_WORKOUT
    IN  /\ chat_id \in users
        /\ plan = NoPlan
        /\ runs < MaxRuns
        /\ runs' = runs + 1
        /\ logs' = closed
        /\ awaiting' = awaiting \cup
                         {Frame("scheduled_push", chat_id, today, existing_log,
                                exercises)}
        /\ last_ev' = Handled("scheduled_push_await", chat_id, <<>>, before,
                              <<"plan_unavailable">>)
        /\ UNCHANGED <<now, sched_vars, pref_vars, users, plans, plan_start, pool>>

\* scheduled_push from that await to its end
ScheduledPushEnd(f) ==
    LET before == LoadDailyLog(logs, f.chat, f.date)
    IN  /\ f \in awaiting
        /\ f.op = "scheduled_push"
        /\ awaiting' = awaiting \ {f}
        /\ IF f.existing_log.exists /\ Truthy(f.existing_log.points)
           THEN /\ logs' = logs
                /\ last_ev' = Handled("scheduled_push", f.chat, <<>>, before,
                                      <<"plan_unavailable">>)
           ELSE /\ logs' = UpdateDailyLog(logs, f.chat, f.date,
                               ListValue(f.exercises), Absent, Absent)
                /\ last_ev' = Handled("scheduled_push", f.chat, <<>>, before,
                                      <<"plan_unavailable", "workout">>)
        /\ UNCHANGED <<now, sched_vars, pref_vars, users, plans, plan_start, pool,
                       runs>>

----------------------------------------------------------------------------
\* app/bot.py: the notification settings

\* The notification columns of a users row.  A nullable TEXT column is Absent
\* or Given(v): v is an hour of the day for an "%H:%M" column and an instant
\* for an isoformat() column.
DefaultRow ==
    [notify_mode |-> "fixed", timezone |-> "Europe/Moscow",
     notify_time_utc |-> Absent, notify_time_utc_iso |-> Absent,
     notify_range_start_utc |-> Absent, notify_range_end_utc |-> Absent,
     notify_range_start_utc_iso |-> Absent, notify_range_end_utc_iso |-> Absent]

\* FSMContext of a chat: no state and no data
Idle == [state |-> None, range_start |-> Absent]

\* The texts a user sends at a time step: an HH:MM, a text that is not an
\* HH:MM and that time.fromisoformat reads all the same ("09:00:30"), and a
\* text it rejects ("25:00")
TimeText(form, h) == [form |-> form, h |-> h]

TimeTexts ==
    {TimeText("HH:MM", 9), TimeText("HH:MM", 23), TimeText("HH:MM:SS", 9),
     TimeText("rejected", 25)}

\* The texts a user sends at the timezone step: zone names, and a name that
\* ZoneInfo does not resolve
TzTexts == {"Europe/Berlin", FallBackZone, "Mars/Phobos"}

\* ZoneInfo(name) returns
Resolves(name) == name \in AllZones

\* validate_time(text): dt.time.fromisoformat(text) returns
ValidateTime(text) == text.form # "rejected"

\* the database file is new and no process has been started
PrefInit ==
    /\ prefs = [c \in AllChats |-> DefaultRow]
    /\ fsm = [c \in AllChats |-> Idle]
    /\ polling = FALSE

\* the call _schedule_user_from_row makes for a row
ArmingCall(row) ==
    IF /\ row.notify_mode = "range"
       /\ row.notify_range_start_utc.given
       /\ row.notify_range_end_utc.given
    THEN IF /\ row.notify_range_start_utc_iso.given
            /\ row.notify_range_end_utc_iso.given
         THEN "_range_job"
         ELSE "schedule_range"
    ELSE IF row.notify_time_utc.given THEN "schedule_fixed" ELSE "none"

\* the row holds a notification preference: a time or both range bounds
HasPreference(row) == ArmingCall(row) # "none"

\* _schedule_user_from_row(scheduler, user_row) at the instant t: the set of
\* its possible outcomes, each with the job store it leaves
ScheduleUserFromRow(store, chat_id, row, t) ==
    LET call == ArmingCall(row)
        start_dt == Datetime(row.notify_range_start_utc_iso.v)
        end_dt == Datetime(row.notify_range_end_utc_iso.v)
        utc == ConvertRangeToUtc(row.notify_range_start_utc.v,
                                 row.notify_range_end_utc.v, "UTC", t)
        local_time == IF row.notify_time_utc_iso.given
                      THEN TimeOfDay(row.notify_time_utc_iso.v)
                      ELSE row.notify_time_utc.v
        utc_time == Datetime(ConvertLocalTimeToUtc(local_time, "UTC", t))
        first == IF call = "_range_job" THEN start_dt ELSE Datetime(utc[1])
        last == IF call = "_range_job" THEN end_dt ELSE Datetime(utc[2])
    IN  IF call = "none"
        THEN {[raised |-> FALSE, jobs |-> store]}
        ELSE IF call = "schedule_fixed"
        THEN IF ~HasSplit(utc_time)
             THEN {[raised |-> TRUE, jobs |-> store]}
             ELSE {[raised |-> FALSE,
                    jobs |-> AddJob(store, FixedJobRecord(chat_id, utc_time, t))]}
        ELSE IF RangeJobRaises(first, last)
             THEN {[raised |-> TRUE, jobs |-> store]}
             ELSE {[raised |-> FALSE,
                    jobs |-> AddJob(store, RangeJobRecord(chat_id, first, last,
                                                          t, r, ByCall))] :
                     r \in 0..SpanOf(first, last, t)}

\* observation of a run of a settings handler: what it sent, whether it
\* raised, and the row, the FSM context and the jobs of the chat before it
Settings(op, chat_id, text, sent, raised) ==
    [op |-> op, chat |-> chat_id, text |-> text, sent |-> sent,
     raised |-> raised, row |-> prefs[chat_id], context |-> fsm[chat_id],
     had |-> JobsOf(jobs, chat_id)]

\* /start
StartCmd(chat_id) ==
    LET full == chat_id \notin users /\ Cardinality(users) >= MAX_USERS
        row == IF chat_id \in users THEN prefs[chat_id]
               ELSE [prefs[chat_id] EXCEPT
                       !.notify_time_utc = Given(TimeOfDay(now)),
                       !.notify_time_utc_iso = Given(now)]
    IN  /\ polling
        /\ runs < MaxRuns
        /\ runs' = runs + 1
        /\ IF full
           THEN /\ last_ev' = Settings("start", chat_id, None, "no_seats", FALSE)
                /\ UNCHANGED <<users, prefs, fsm, jobs>>
           ELSE /\ users' = users \cup {chat_id}
                /\ prefs' = [prefs EXCEPT ![chat_id] = row]
                /\ fsm' = [fsm EXCEPT ![chat_id] = Idle]
                /\ \E out \in ScheduleUserFromRow(jobs, chat_id, row, now) :
                     /\ jobs' = out.jobs
                     /\ last_ev' = Settings("start", chat_id, None, "menu",
                                            out.raised)
        /\ UNCHANGED <<now, running, inflight, calls, plans, plan_start, pool,
                       logs, polling, awaiting>>

\* settings_entry: the menu button "settings"
SettingsEntry(chat_id) ==
    /\ polling
    /\ runs < MaxRuns
    /\ runs' = runs + 1
    /\ fsm' = [fsm EXCEPT ![chat_id] = Idle]
    /\ users' = EnsureProfile(chat_id)
    /\ last_ev' = Settings("settings_entry", chat_id, None, "settings", FALSE)
    /\ UNCHANGED <<now, sched_vars, plans, plan_start, pool, logs, prefs,
                   polling, awaiting>>

\* the FSM state handle_settings_callback sets for an action of the
\* settings keyboard
StateOf(action) ==
    CASE action = "timezone" -> "timezone"
      [] action = "fixed" -> "fixed_time"
      [] action = "range" -> "range_start"

SettingsActions == {"timezone", "fixed", "range"}

\* handle_settings_callback: a button of the settings keyboard
HandleSettingsCallback(chat_id, action) ==
    /\ polling
    /\ runs < MaxRuns
    /\ runs' = runs + 1
    /\ IF chat_id \notin users
       THEN /\ fsm' = fsm
            /\ last_ev' = Settings("settings_callback", chat_id, action,
                                   "no_profile", FALSE)
       ELSE /\ fsm' = [fsm EXCEPT ![chat_id].state = StateOf(action)]
            /\ last_ev' = Settings("settings_callback", chat_id, action,
                                   "prompt", FALSE)
    /\ UNCHANGED <<now, sched_vars, db_vars, prefs, polling, awaiting>>

\* set_timezone: a text in the state SettingsStates.timezone
SetTimezone(chat_id, text) ==
    /\ polling
    /\ fsm[chat_id].state = "timezone"
    /\ runs < MaxRuns
    /\ runs' = runs + 1
    /\ IF ~Resolves(text)
       THEN /\ last_ev' = Settings("set_timezone", chat_id, text, "reprompt",
                                   FALSE)
            /\ UNCHANGED <<users, prefs, fsm>>
       ELSE /\ users' = users \cup {chat_id}
            /\ prefs' = [prefs EXCEPT ![chat_id].timezone = text]
            /\ fsm' = [fsm EXCEPT ![chat_id] = Idle]
            /\ last_ev' = Settings("set_timezone", chat_id, text, "settings",
                                   FALSE)
    /\ UNCHANGED <<now, sched_vars, plans, plan_start, pool, logs, polling,
                   awaiting>>

\* set_fixed_time: a text in the state SettingsStates.fixed_time
SetFixedTime(chat_id, text) ==
    LET utc_dt == ConvertLocalTimeToUtc(text.h, prefs[chat_id].timezone, now)
        row == [prefs[chat_id] EXCEPT
                  !.notify_time_utc = Given(TimeOfDay(utc_dt)),
                  !.notify_time_utc_iso = Given(utc_dt),
                  !.notify_mode = "fixed",
                  !.notify_range_start_utc = Absent,
                  !.notify_range_end_utc = Absent,
                  !.notify_range_start_utc_iso = Absent,
                  !.notify_range_end_utc_iso = Absent]
    IN  /\ polling
        /\ fsm[chat_id].state = "fixed_time"
        /\ runs < MaxRuns
        /\ runs' = runs + 1
        /\ IF ~ValidateTime(text)
           THEN /\ last_ev' = Settings("set_fixed_time", chat_id, text,
                                       "reprompt", FALSE)
                /\ UNCHANGED <<users, prefs, fsm, jobs>>
           ELSE /\ users' = EnsureProfile(chat_id)
                /\ prefs' = [prefs EXCEPT ![chat_id] = row]
                /\ \E out \in ScheduleUserFromRow(jobs, chat_id, row, now) :
                     /\ jobs' = out.jobs
                     /\ fsm' = IF out.raised THEN fsm
                               ELSE [fsm EXCEPT ![chat_id] = Idle]
                     /\ last_ev' = Settings("set_fixed_time", chat_id, text,
                                            IF out.raised THEN "nothing"
                                            ELSE "settings", out.raised)
        /\ UNCHANGED <<now, running, inflight, calls, plans, plan_start, pool,
                       logs, polling, awaiting>>

\* set_range_start: a text in the state SettingsStates.range_start
SetRangeStart(chat_id, text) ==
    /\ polling
    /\ fsm[chat_id].state = "range_start"
    /\ runs < MaxRuns
    /\ runs' = runs + 1
    /\ IF ~ValidateTime(text)
       THEN /\ fsm' = fsm
            /\ last_ev' = Settings("set_range_start", chat_id, text,
                                   "reprompt", FALSE)
       ELSE /\ fsm' = [fsm EXCEPT ![chat_id] =
                         [state |-> "range_end", range_start |-> Given(text)]]
            /\ last_ev' = Settings("set_range_start", chat_id, text, "prompt",
                                   FALSE)
    /\ UNCHANGED <<now, sched_vars, db_vars, prefs, polling, awaiting>>

\* set_range_end: a text in the state SettingsStates.range_end
SetRangeEnd(chat_id, text) ==
    LET start_local == fsm[chat_id].range_start.v
        utc == ConvertRangeToUtc(start_local.h, text.h,
                                 prefs[chat_id].timezone, now)
        row == [prefs[chat_id] EXCEPT
                  !.notify_mode = "range",
                  !.notify_range_start_utc = Given(TimeOfDay(utc[1])),
                  !.notify_range_end_utc = Given(TimeOfDay(utc[2])),
                  !.notify_range_start_utc_iso = Given(utc[1]),
                  !.notify_range_end_utc_iso = Given(utc[2])]
    IN  /\ polling
        /\ fsm[chat_id].state = "range_end"
        /\ runs < MaxRuns
        /\ runs' = runs + 1
        /\ IF ~ValidateTime(text)
           THEN /\ last_ev' = Settings("set_range_end", chat_id, text,
                                       "reprompt", FALSE)
                /\ UNCHANGED <<users, prefs, fsm, jobs>>
           ELSE /\ users' = EnsureProfile(chat_id)
                /\ prefs' = [prefs EXCEPT ![chat_id] = row]
                /\ \E out \in ScheduleUserFromRow(jobs, chat_id, row, now) :
                     /\ jobs' = out.jobs
                     /\ fsm' = IF out.raised THEN fsm
                               ELSE [fsm EXCEPT ![chat_id] = Idle]
                     /\ last_ev' = Settings("set_range_end", chat_id, text,
                                            IF out.raised THEN "nothing"
                                            ELSE "settings", out.raised)
        /\ UNCHANGED <<now, running, inflight, calls, plans, plan_start, pool,
                       logs, polling, awaiting>>

\* the orders in which a loop can meet the elements of a set
Orders(S) ==
    {f \in [1..Cardinality(S) -> S] :
       \A i, j \in 1..Cardinality(S) : i # j => f[i] # f[j]}

\* `for user in database.list_users(): _schedule_user_from_row(...)`: the
\* possible outcomes of the loop over the rows still to come
RECURSIVE StartupLoop(_, _, _)
StartupLoop(store, rows, t) ==
    IF rows = <<>>
    THEN {[raised |-> FALSE, jobs |-> store]}
    ELSE UNION {IF out.raised THEN {out}
                ELSE StartupLoop(out.jobs, Tail(rows), t) :
                  out \in ScheduleUserFromRow(store, Head(rows),
                                              prefs[Head(rows)], t)}

\* main(): a process is started on the database as it is: a new scheduler,
\* a new FSM storage, then on_startup.  When on_startup raises, main() ends
\* with the exception and no update is ever taken.  The table does not keep
\* the order of the ids in the model: the loop is followed in every order.
OnStartup ==
    /\ runs < MaxRuns
    /\ runs' = runs + 1
    /\ fsm' = [c \in AllChats |-> Idle]
    /\ inflight' = {}
    /\ \E rows \in Orders(users) :
         \E out \in StartupLoop({}, rows, now) :
           /\ jobs' = out.jobs
           /\ running' = ~out.raised
           /\ polling' = ~out.raised
           /\ last_ev' = [op |-> "on_startup", raised |-> out.raised]
    /\ awaiting' = {}
    /\ UNCHANGED <<now, calls, db_vars, prefs>>

----------------------------------------------------------------------------
\* The specifications

\* database.init_db() on an empty database file
DbInit ==
    /\ users = {}
    /\ plans = [c \in AllChats |-> {}]
    /\ plan_start = [c \in AllChats |-> Absent]
    /\ pool = [c \in AllChats |-> <<>>]
    /\ logs = [k \in AllChats \X Days |-> NoLog]

\* WorkoutScheduler.__init__
Init ==
    /\ now = 0
    /\ running = FALSE
    /\ jobs = {}
    /\ inflight = {}
    /\ last_ev = NoEvent
    /\ calls = 0
    /\ DbInit
    /\ runs = 0
    /\ PrefInit
    /\ awaiting = {}

Timezones == ZoneNames \cup {None}

\* The scheduler under its callers and the clock
Next ==
    \/ \E c \in Chats, t \in TimeStrs, z \in Timezones : ScheduleFixed(c, t, z)
    \/ \E c \in Chats, w \in RangeStrs, z \in Timezones :
         ScheduleRange(c, w[1], w[2], z)
    \/ \E c \in Chats, w \in RangeStrs : RangeJobCall(c, w[1], w[2])
    \/ Start
    \/ Shutdown
    \/ \E c \in Chats : Fire(c)
    \/ \E c \in Chats : Misfire(c)
    \/ \E f \in inflight, o \in Outcomes : DispatchDone(f, o)
    \/ Tick

Spec == Init /\ [][Next]_vars

\* The daily-log handlers under the users' messages, the firings and the
\* calendar
\* the chats whose messages and firings the log specification follows
Members == {1}

LogNext ==
    \/ \E c \in Members, a \in BOOLEAN : TodayPlan(c, a)
    \/ \E c \in Members, s \in Sessions, i \in -1..MaxIndex, d \in BOOLEAN :
         HandleExerciseCallback(c, s, i, d)
    \/ \E c \in Members : ScheduledPush(c)
    \/ \E c \in Members, f \in PlanFiles : HandlePlanFile(c, f)
    \/ NextDay

SpecLog == Init /\ [][LogNext]_vars

----------------------------------------------------------------------------
\* The conversions of app/time_utils.py as functions of their arguments and
\* of the instant at which they are evaluated

\* every HH:00 of a day
Hours == 0..(DayLen - 1)

\* the instants the conversions are evaluated at: around the forward
\* transition of Europe/Berlin and around the backward one of Australia/Sydney
Instants ==
    {0, 9, DstAt - 2, DstAt - 1, DstAt, DstAt + 1,
     FallBackAt - DayLen, FallBackAt - 2, FallBackAt - 1, FallBackAt,
     FallBackAt + 1}

TimeInit ==
    /\ now \in Instants
    /\ running = FALSE
    /\ jobs = {}
    /\ inflight = {}
    /\ last_ev = NoEvent
    /\ calls = 0
    /\ DbInit
    /\ runs = 0
    /\ PrefInit
    /\ awaiting = {}

\* convert_local_time_to_utc(time_str, timezone), evaluated now; a behaviour
\* follows one evaluation
ConvertLocalTimeToUtcCall(time_str, timezone) ==
    /\ calls = 0
    /\ calls' = calls + 1
    /\ last_ev' = [op |-> "convert_local_time_to_utc",
                   args |-> <<time_str, timezone>>,
                   result |-> ConvertLocalTimeToUtc(time_str, timezone, now)]
    /\ UNCHANGED <<now, running, jobs, inflight, db_vars, runs, pref_vars,
                   awaiting>>

\* convert_range_to_utc(start, end, timezone), evaluated now
ConvertRangeToUtcCall(start, end, timezone) ==
    /\ calls = 0
    /\ calls' = calls + 1
    /\ last_ev' = [op |-> "convert_range_to_utc",
                   args |-> <<start, end, timezone>>,
                   result |-> ConvertRangeToUtc(start, end, timezone, now)]
    /\ UNCHANGED <<now, running, jobs, inflight, db_vars, runs, pref_vars,
                   awaiting>>

TimeNext ==
    \/ \E h \in Hours, z \in AllZones \cup {None} :
         ConvertLocalTimeToUtcCall(h, z)
    \/ \E s \in Hours, e \in Hours, z \in AllZones \cup {None} :
         ConvertRangeToUtcCall(s, e, z)

SpecTime == TimeInit /\ [][TimeNext]_vars

\* The daily-log handlers of a user who may stay away for more than a day
AbsenceNext ==
    \/ \E c \in Members, a \in BOOLEAN : TodayPlan(c, a)
    \/ \E c \in Members, s \in Sessions, i \in -1..MaxIndex, d \in BOOLEAN :
         HandleExerciseCallback(c, s, i, d)
    \/ \E c \in Members : ScheduledPush(c)
    \/ \E c \in Members, f \in PlanFiles : HandlePlanFile(c, f)
    \/ \E n \in 1..2 : DaysPass(n)

SpecAbsence == Init /\ [][AbsenceNext]_vars

\* The handlers that create a user record, under the messages of three chats
AccessNext ==
    \/ OnStartup
    \/ \E c \in AllChats : StartCmd(c)
    \/ \E c \in AllChats : SettingsEntry(c)
    \/ \E c \in AllChats, a \in BOOLEAN : TodayPlan(c, a)
    \/ \E c \in AllChats, f \in PlanFiles : HandlePlanFile(c, f)

SpecAccess == Init /\ [][AccessNext]_vars

\* get_plan_for_date over rotating plans: the plan of the user and the start
\* date are drawn at the start, a behaviour follows one evaluation
MaxPlanDays == 3
MaxDate == 4
StartDates == 0..MaxDate
TargetDates == (0 - MaxDate)..(2 * MaxDate)
PlanTitles == <<"A", "B", "C", "D", "E">>

\* the rows replace_plan stores for a plan of n days with the day indexes
\* 1..n; the third day is a rest day
RotatingPlan(n) ==
    {[day_index |-> i, title |-> PlanTitles[i],
      exercise_list |-> <<Exercise("Otzhimaniya", Given(i))>>,
      is_rest_day |-> (i = 3)] : i \in 1..n}

PlanInit ==
    /\ now = 0
    /\ running = FALSE
    /\ jobs = {}
    /\ inflight = {}
    /\ last_ev = NoEvent
    /\ calls = 0
    /\ users = Members
    /\ \E n \in 1..MaxPlanDays :
         plans = [c \in AllChats |-> IF c \in Members THEN RotatingPlan(n) ELSE {}]
    /\ \E start \in {Absent} \cup {Given(d) : d \in StartDates} :
         plan_start = [c \in AllChats |-> IF c \in Members THEN start ELSE Absent]
    /\ pool = [c \in AllChats |-> <<>>]
    /\ logs = [k \in AllChats \X Days |-> NoLog]
    /\ runs = 0
    /\ PrefInit
    /\ awaiting = {}

\* get_plan_for_date(user_id, target_date, user["plan_start_date"])
GetPlanForDateCall(chat_id, target_date) ==
    /\ calls = 0
    /\ calls' = calls + 1
    /\ last_ev' = [op |-> "get_plan_for_date", chat |-> chat_id,
                   args |-> <<target_date>>,
                   result |-> GetPlanForDate(plans[chat_id], target_date,
                                             plan_start[chat_id])]
    /\ UNCHANGED <<now, running, jobs, inflight, db_vars, runs, pref_vars,
                   awaiting>>

PlanNext == \E c \in Members, d \in TargetDates : GetPlanForDateCall(c, d)

SpecPlan == PlanInit /\ [][PlanNext]_vars

\* The daily-log handlers as coroutines that interleave at their awaits
RaceNext ==
    \/ \E c \in Members : TodayPlanBegin(c)
    \/ \E f \in awaiting : TodayPlanEnd(f)
    \/ \E c \in Members : ScheduledPushBegin(c)
    \/ \E f \in awaiting : ScheduledPushEnd(f)
    \/ \E c \in Members, a \in BOOLEAN : TodayPlan(c, a)
    \/ \E c \in Members, s \in Sessions, i \in -1..MaxIndex, d \in BOOLEAN :
         HandleExerciseCallback(c, s, i, d)
    \/ \E c \in Members, f \in PlanFiles : HandlePlanFile(c, f)

SpecRace == Init /\ [][RaceNext]_vars

\* The settings handlers under the users' messages and the restarts of the
\* process
PrefNext ==
    \/ OnStartup
    \/ \E c \in Chats : StartCmd(c)
    \/ \E c \in Chats : SettingsEntry(c)
    \/ \E c \in Chats, a \in SettingsActions : HandleSettingsCallback(c, a)
    \/ \E c \in Chats, z \in TzTexts : SetTimezone(c, z)
    \/ \E c \in Chats, x \in TimeTexts : SetFixedTime(c, x)
    \/ \E c \in Chats, x \in TimeTexts : SetRangeStart(c, x)
    \/ \E c \in Chats, x \in TimeTexts : SetRangeEnd(c, x)

SpecPrefs == Init /\ [][PrefNext]_vars

----------------------------------------------------------------------------
\* Claims about the daily log

\* today's log row of the chat of the last handler run
LogNow == LoadDailyLog(logs, last_ev.chat, DateOf(now))

\* the row stores a list for the main and for the additional session
HasBothSessions(log) ==
    /\ log.exists
    /\ log.exercises_done.kind = "dict"
    /\ log.exercises_done.keys = {"main", "additional"}
    /\ log.exercises_done.main # <<>>
    /\ log.exercises_done.additional # <<>>

\* C1: a scheduled push for a user whose log of today stores lists for the
\* main and the additional session returns, has sent a message, and leaves
\* the key "additional" in the log with the list stored before.
C1_PushKeepsAdditional ==
    (last_ev.op = "scheduled_push" /\ HasBothSessions(last_ev.before)) =>
        /\ ~last_ev.raised
        /\ last_ev.sent # <<>>
        /\ LogNow.exists
        /\ LogNow.exercises_done.kind = "dict"
        /\ "additional" \in LogNow.exercises_done.keys
        /\ LogNow.exercises_done.additional = last_ev.before.exercises_done.additional

----------------------------------------------------------------------------
\* Claims about the scheduler

\* C2: in every reachable state the scheduler holds at most one armed job
\* per chat id, and a job armed for a chat that already had one has taken
\* the old job's place.
C2_OneJobPerChat ==
    /\ \A c \in Chats : Cardinality(JobsOf(jobs, c)) <= 1
    /\ (last_ev.op \in {"_range_job", "rearm"} /\ ~last_ev.raised)
         => \A j \in JobsOf(jobs, last_ev.chat) : j.armed_at = now

\* a job has just been armed for a chat that had one armed already
C2_Witness ==
    /\ last_ev.op = "_range_job"
    /\ ~last_ev.raised
    /\ last_ev.had = 1
    /\ Cardinality(JobsOf(jobs, last_ev.chat)) = 1

\* C3: schedule_fixed with a valid HH:MM and a resolvable timezone returns
\* without raising and leaves a daily job armed for the chat whose first fire
\* instant is the next UTC instant at which the local clock reads local_time.
C3_ScheduleFixedArms ==
    last_ev.op = "schedule_fixed" =>
        /\ ~last_ev.raised
        /\ \E j \in JobsOf(jobs, last_ev.chat) :
             /\ j.mode = "fixed"
             /\ j.run_date = ConvertLocalTimeToUtc(last_ev.args[1], last_ev.args[2], now)

\* C4: schedule_range with valid inputs returns without raising and arms a
\* job whose fire instant lies inside the window convert_range_to_utc returns
\* for the same inputs, bounds included.
C4_ScheduleRangeArms ==
    last_ev.op = "schedule_range" =>
        /\ ~last_ev.raised
        /\ \E j \in JobsOf(jobs, last_ev.chat) :
             LET w == ConvertRangeToUtc(last_ev.args[1], last_ev.args[2],
                                        last_ev.args[3], now)
             IN  j.mode = "range" /\ w[1] <= j.run_date /\ j.run_date <= w[2]

\* C5: a job re-armed by a firing of the window [S, E], the callback having
\* returned inside that window, has the window [S + 24h, E + 24h] and a fire
\* instant inside it.
C5_RearmNextDay ==
    \A j \in jobs :
        (j.origin = "rearm" /\ j.prev_start <= j.armed_at /\ j.armed_at <= j.prev_end)
        => /\ j.win_start = j.prev_start + DayLen
           /\ j.win_end = j.prev_end + DayLen
           /\ j.win_start <= j.run_date /\ j.run_date <= j.win_end

\* C6: in range mode no firing falls inside the window inside which the
\* firing that re-armed its job fell.
C6_OnceInAWindow ==
    last_ev.op = "fire" =>
        ~(/\ last_ev.job.origin = "rearm"
          /\ last_ev.job.win_start = last_ev.job.prev_start
          /\ last_ev.job.win_end = last_ev.job.prev_end)

\* C7: the chain of re-arms of a range job never ends: a job armed by a
\* re-arm, the callback having returned normally, is never dropped by the
\* running scheduler without being run.
C7_RearmedJobRuns ==
    last_ev.op = "misfire" =>
        ~(/\ last_ev.job.origin = "rearm"
          /\ last_ev.job.run_date < last_ev.job.armed_at
          /\ JobsOf(jobs, last_ev.chat) = {})

\* The fire instants of a daily job on the day it is armed for and the next
DailyFires(j) == {j.run_date, j.run_date + DayLen}

\* C8: a fixed-mode job fires at the configured local wall-clock time of the
\* user's timezone on every day, also after the zone's UTC offset changed.
C8_FixedFollowsLocalTime ==
    last_ev.op = "schedule_fixed" =>
        \E j \in JobsOf(jobs, last_ev.chat) :
            /\ j.mode = "fixed"
            /\ \A u \in DailyFires(j) :
                 TimeOfDay(u + UtcOffset(ZoneOf(last_ev.args[2]), u)) = last_ev.args[1]

\* C9: no armed job was put back by the re-arm of a firing whose own job had
\* been replaced by a later arming call for the same chat.
C9_NoStaleRearm == \A j \in jobs : ~j.stale

\* C10: after a firing whose dispatch callback raised, the scheduler is
\* still running and the chat still has a job armed.
C10_ArmedAfterError ==
    (last_ev.op = "no_rearm" /\ last_ev.args[2] = "error") =>
        /\ running
        /\ JobsOf(jobs, last_ev.chat) # {}

\* C11: a firing of a range job whose delivery failed with
\* TelegramForbiddenError ends without raising and re-arms the chat's job
\* with the bounds of the job that fired, as after a delivery that succeeded.
C11_UnreachableRearms ==
    (/\ last_ev.op \in {"rearm", "no_rearm"}
     /\ last_ev.args[2] = "forbidden"
     /\ last_ev.args[1].mode = "range")
    => /\ last_ev.op = "rearm"
       /\ ~last_ev.raised
       /\ \E j \in JobsOf(jobs, last_ev.chat) :
            /\ j.armed_at = now
            /\ j.origin = "rearm"
            /\ j.start = last_ev.args[1].start
            /\ j.end = last_ev.args[1].end

\* a range job has fired, its delivery failed with TelegramForbiddenError,
\* and the job is armed again
C11_Witness ==
    /\ last_ev.op = "rearm"
    /\ last_ev.args[2] = "forbidden"
    /\ JobsOf(jobs, last_ev.chat) # {}

C16_NextWithinADay ==
    last_ev.op = "convert_local_time_to_utc"
    => /\ now <= last_ev.result
       /\ last_ev.result <= now + DayLen

\* C17: convert_range_to_utc(start, end, timezone) returns a pair of
\* instants whose end is later than its start.
C17_EndAfterStart ==
    last_ev.op = "convert_range_to_utc"
    => last_ev.result[2] > last_ev.result[1]

\* C12: on_startup returns without raising, and afterwards every stored user
\* whose row holds a notification preference has exactly one job: a range
\* job when the row is in range mode with both bounds, a fixed job otherwise.
C12_StartupArmsEveryUser ==
    last_ev.op = "on_startup"
    => /\ ~last_ev.raised
       /\ \A c \in users :
            HasPreference(prefs[c])
            => /\ Cardinality(JobsOf(jobs, c)) = 1
               /\ \A j \in JobsOf(jobs, c) :
                    j.mode = IF ArmingCall(prefs[c]) = "schedule_fixed"
                             THEN "fixed" ELSE "range"

\* C13: a handler that accepted a new fixed time, a new range or a new
\* timezone returns without raising and leaves the user a job armed at that
\* moment, of the mode the row now stores.
C13_ChangeRearms ==
    (/\ last_ev.op \in {"set_timezone", "set_fixed_time", "set_range_end"}
     /\ last_ev.sent # "reprompt")
    => /\ ~last_ev.raised
       /\ \E j \in JobsOf(jobs, last_ev.chat) :
            /\ j.armed_at = now
            /\ j.mode = prefs[last_ev.chat].notify_mode

\* C14: every user in fixed mode has a notify_time_utc stored.
C14_DefaultTimeStored ==
    \A c \in users :
      prefs[c].notify_mode = "fixed" => prefs[c].notify_time_utc.given

\* C18: a text that is not an HH:MM at the fixed-time, range-start or
\* range-end step, or a timezone name that does not resolve at the timezone
\* step, is answered with a re-prompt and leaves the user's row, the step the
\* dialogue is at and the user's jobs as they were.
C18_InvalidInputReprompts ==
    (\/ /\ last_ev.op \in {"set_fixed_time", "set_range_start", "set_range_end"}
        /\ last_ev.text.form # "HH:MM"
     \/ /\ last_ev.op = "set_timezone"
        /\ ~Resolves(last_ev.text))
    => /\ last_ev.sent = "reprompt"
       /\ prefs[last_ev.chat] = last_ev.row
       /\ fsm[last_ev.chat] = last_ev.context
       /\ JobsOf(jobs, last_ev.chat) = last_ev.had

\* C19: once the log of a (user, date) carries the outcome "completed" or
\* "skipped", no later handler run changes that outcome.
C19_OutcomeIsTerminal ==
    [][\A c \in Members, d \in Days :
         (/\ logs[<<c, d>>].exists
          /\ logs[<<c, d>>].difficulty_rate \in {"completed", "skipped"})
         => logs'[<<c, d>>].difficulty_rate = logs[<<c, d>>].difficulty_rate]_vars

\* C20: "skip the day" pressed for a main session that is already completed
\* leaves the points and the outcome of the log as they were.
C20_SkipAfterCompleted ==
    (/\ last_ev.op = "exercise_callback"
     /\ last_ev.args[1] = "main"
     /\ last_ev.args[2] = -1
     /\ last_ev.before.exists
     /\ last_ev.before.difficulty_rate = "completed")
    => /\ LogNow.difficulty_rate = "completed"
       /\ LogNow.points = last_ev.before.points

\* the last handler run was a toggle of an exercise that was saved
ToggleSaved ==
    /\ last_ev.op = "exercise_callback"
    /\ last_ev.sent \in {<<"finished", "menu">>, <<"workout">>}

\* every entry of the list is done
AllDone(exercises) == \A i \in 1..Len(exercises) : ExDone(exercises[i])

\* C21: a toggle that makes every entry of a session done completes the
\* session and credits the sum of the entries' point weights (an entry
\* without a weight counts 1); a toggle after which an entry is still not
\* done leaves the day's outcome and points as they were.
C21_ToggleCredits ==
    ToggleSaved
    => LET session == last_ev.args[1]
           after == LogExercises(LogNow, session)
       IN  IF AllDone(after)
           THEN IF session = "main"
                THEN /\ LogNow.difficulty_rate = "completed"
                     /\ LogNow.points = PointsOf(after)
                ELSE LogNow.points = last_ev.before.points + PointsOf(after)
           ELSE /\ LogNow.difficulty_rate = last_ev.before.difficulty_rate
                /\ LogNow.points = last_ev.before.points

\* a session of the log is complete: the main session by its outcome, the
\* additional session by its entries
SessionCompleted(log) ==
    /\ log.exists
    /\ \/ log.difficulty_rate = "completed"
       \/ /\ LogExercises(log, "additional") # <<>>
          /\ AllDone(LogExercises(log, "additional"))

\* C22: once a session of a (user, date) log is complete, no step makes the
\* points of the log smaller.
C22_PointsNeverDecrease ==
    [][\A c \in Members, d \in Days :
         SessionCompleted(logs[<<c, d>>])
         => logs'[<<c, d>>].points >= logs[<<c, d>>].points]_vars

\* C23: the toggle that completes an additional session not complete before
\* adds the session's points to the points the day had and leaves the day's
\* outcome as it was;
\* the outcome becomes "completed" only by the toggle that completes the main
\* session.
C23_AdditionalOnlyAdds ==
    /\ (/\ ToggleSaved
        /\ last_ev.args[1] = "additional"
        /\ last_ev.sent = <<"finished", "menu">>
        /\ ~AllDone(LogExercises(last_ev.before, "additional")))
       => /\ LogNow.points = last_ev.before.points
                             + PointsOf(LogExercises(LogNow, "additional"))
          /\ LogNow.difficulty_rate = last_ev.before.difficulty_rate
    /\ (/\ last_ev.op \in {"today_plan", "exercise_callback", "scheduled_push",
                           "plan_file"}
        /\ LogNow.exists
        /\ LogNow.difficulty_rate = "completed"
        /\ ~(last_ev.before.exists
             /\ last_ev.before.difficulty_rate = "completed"))
       => /\ ToggleSaved
          /\ last_ev.args[1] = "main"
          /\ last_ev.sent = <<"finished", "menu">>

\* C24: the main session is refused, when it is asked for or skipped, only
\* because of the main session's own outcome, never because of what was done
\* in the additional session.
C24_MainIndependent ==
    /\ (/\ last_ev.op = "today_plan"
        /\ last_ev.args[1] = FALSE
        /\ last_ev.sent = <<"already_saved">>)
       => last_ev.before.difficulty_rate = "completed"
    /\ (/\ last_ev.op = "exercise_callback"
        /\ last_ev.sent = <<"already_completed">>)
       => last_ev.before.difficulty_rate = "completed"

\* C25: when a session of today's log stores a non-empty list, a plan request
\* or a scheduled push leaves that list, with its completion flags, as the
\* list of the session: the content it shows is the stored one.
C25_StoredListAuthoritative ==
    [][\A c \in Members, s \in Sessions :
         LET old == LogExercises(logs[<<c, DateOf(now)>>], s)
             new == LogExercises(logs'[<<c, DateOf(now)>>], s)
         IN  (/\ old # <<>>
              /\ now' = now
              /\ last_ev'.op \in {"today_plan", "scheduled_push"})
             => new = old]_vars

\* C26: close_previous_day_if_pending applied to an existing log of
\* yesterday none of whose sessions is complete leaves it with the outcome
\* "skipped" and 0 points, and a second application changes nothing more.
C26_ClosureIdempotent ==
    \A c \in Members, today \in 1..MaxDay :
      LET previous_log == LoadDailyLog(logs, c, today - 1)
          once == ClosePreviousDayIfPending(logs, c, today)
          twice == ClosePreviousDayIfPending(once, c, today)
      IN  (previous_log.exists /\ ~SessionCompleted(previous_log))
          => /\ once[<<c, today - 1>>].difficulty_rate = "skipped"
             /\ once[<<c, today - 1>>].points = 0
             /\ twice = once

\* a handler has run on day 1 and has closed the log of day 0, which holds
\* a main session that was started and not finished
C26_Witness ==
    /\ DateOf(now) = 1
    /\ last_ev.op \in {"today_plan", "scheduled_push"}
    /\ ~last_ev.raised
    /\ logs[<<last_ev.chat, 0>>].exists
    /\ logs[<<last_ev.chat, 0>>].difficulty_rate = "skipped"
    /\ logs[<<last_ev.chat, 0>>].points = 0
    /\ LogExercises(logs[<<last_ev.chat, 0>>], "main") # <<>>
    /\ ~AllDone(LogExercises(logs[<<last_ev.chat, 0>>], "main"))

\* C27: in every reachable state in which a user's log of a date exists, an
\* existing log of the same user of the date before has the outcome
\* "completed" or "skipped".
C27_YesterdayClosed ==
    \A c \in Members, d \in 1..MaxDay :
      (logs[<<c, d>>].exists /\ logs[<<c, d - 1>>].exists)
      => logs[<<c, d - 1>>].difficulty_rate \in {"completed", "skipped"}

\* C28: when a handler that was suspended between its read of the log and
\* its write resumes, the log is still the one it read: no other handler has
\* written it in between, so no flag or list persisted meanwhile is lost.
C28_NoStaleWrite ==
    [][\A f \in awaiting :
         f \notin awaiting'
         => LoadDailyLog(logs, f.chat, f.date) = f.existing_log]_vars

\* C29: update_daily_log on an existing row keeps the stored outcome tag when
\* no tag is passed and the stored points when no points are passed, and
\* overwrites the points when points are passed, 0 included; add_points adds
\* its delta to the points and changes nothing else; a row created without
\* points has points 0.
C29_OmittedFieldsKept ==
    \A c \in Chats, d \in Days :
        LET old == logs[<<c, d>>]
            Upd(points) ==
                UpdateDailyLog(logs, c, d, ListValue(FALLBACK_WORKOUT), Absent,
                               points)[<<c, d>>]
        IN  IF old.exists
            THEN /\ Upd(Absent).difficulty_rate = old.difficulty_rate
                 /\ Upd(Absent).points = old.points
                 /\ \A p \in {0, 3} : Upd(Given(p)).points = p
                 /\ AddPoints(logs, c, d, 2)[<<c, d>>]
                      = [old EXCEPT !.points = old.points + 2]
            ELSE /\ Upd(Absent).exists
                 /\ Upd(Absent).points = 0
                 /\ Upd(Absent).difficulty_rate = None

\* C30: when no plan is configured for the date and today's log stores no
\* main-session exercises (it is absent or holds only an additional session),
\* today_plan and scheduled_push both complete without error and the main
\* session they send and store is the built-in default exercise set.
C30_DefaultWhenNoPlan ==
    (/\ \/ last_ev.op = "today_plan" /\ last_ev.args = <<FALSE>>
        \/ last_ev.op = "scheduled_push"
     /\ last_ev.chat \in users
     /\ GetPlanForDate(plans[last_ev.chat], DateOf(now),
                       plan_start[last_ev.chat]) = NoPlan
     /\ LogExercises(last_ev.before, "main") = <<>>)
    => /\ ~last_ev.raised
       /\ last_ev.sent = <<"plan_unavailable", "workout">>
       /\ LogExercises(LogNow, "main") = FALLBACK_WORKOUT

\* C31: a firing for a user who has a plan day for today completes without
\* error: on a rest day scheduled_push sends the rest notice and writes no log
\* for today; on a training day without a log it stores the plan day's
\* exercises as today's main session, none of them done, and sends them.
PlanToday(chat_id) ==
    GetPlanForDate(plans[chat_id], DateOf(now), plan_start[chat_id])

C31_PushWithPlan ==
    (/\ last_ev.op = "scheduled_push"
     /\ last_ev.chat \in users
     /\ PlanToday(last_ev.chat) # NoPlan)
    => /\ ~last_ev.raised
       /\ PlanToday(last_ev.chat)[1]
          => /\ last_ev.sent = <<"rest">>
             /\ LogNow = last_ev.before
       /\ (~PlanToday(last_ev.chat)[1] /\ ~last_ev.before.exists)
          => /\ last_ev.sent = <<"workout">>
             /\ LogNow.exists
             /\ LET main == LogExercises(LogNow, "main")
                IN  /\ Len(main) = Len(PlanToday(last_ev.chat)[2])
                    /\ \A i \in 1..Len(main) :
                         /\ main[i].name = PlanToday(last_ev.chat)[2][i].name
                         /\ ~ExDone(main[i])

\* the session of the log has been completed: the main session by the
\* outcome of the day, the additional session by all of its entries
CompletedSession(log, session) ==
    IF session = "main"
    THEN log.difficulty_rate = "completed"
    ELSE /\ LogExercises(log, "additional") # <<>>
         /\ AllDone(LogExercises(log, "additional"))

\* C32: "skip" pressed for a session that is not completed, the main or the
\* additional one, sets the outcome to "skipped" with 0 points.
C32_SkipSetsSkipped ==
    (/\ last_ev.op = "exercise_callback"
     /\ last_ev.args[2] = -1
     /\ last_ev.chat \in users
     /\ LogExercises(last_ev.before, last_ev.args[1]) # <<>>
     /\ ~CompletedSession(last_ev.before, last_ev.args[1]))
    => /\ last_ev.sent = <<"day_skipped">>
       /\ LogNow.difficulty_rate = "skipped"
       /\ LogNow.points = 0

\* the session that is not the given one
OtherSession(session) == IF session = "main" THEN "additional" ELSE "main"

\* C33: a toggle of entry i of a session changes only the done flag of that
\* entry: the other entries of the session and the other session's list stay
\* as they were, and so do the day's points and outcome unless the toggle
\* completes the session.
C33_ToggleFrame ==
    ToggleSaved
    => LET session == last_ev.args[1]
           index == last_ev.args[2]
           old == LogExercises(last_ev.before, session)
           new == LogExercises(LogNow, session)
       IN  /\ Len(new) = Len(old)
           /\ \A j \in 1..Len(old) :
                /\ new[j].name = old[j].name
                /\ new[j].points = old[j].points
                /\ ExDone(new[j]) = IF j = index + 1 THEN last_ev.args[3]
                                    ELSE ExDone(old[j])
           /\ LogExercises(LogNow, OtherSession(session))
                = LogExercises(last_ev.before, OtherSession(session))
           /\ last_ev.sent = <<"workout">>
              => /\ LogNow.points = last_ev.before.points
                 /\ LogNow.difficulty_rate = last_ev.before.difficulty_rate

\* the plan day of the index: what get_plan_day returns for its row
DayOf(rows, index) ==
    LET row == CHOOSE r \in rows : r.day_index = index
    IN  <<row.is_rest_day, IF row.is_rest_day THEN <<>> ELSE row.exercise_list,
          row.title>>

\* C34: with a rotating plan of N days under the indexes 1..N and the start
\* date s, get_plan_for_date for the date d returns the plan day of index
\* ((d - s) mod N) + 1, an index within 1..N also when d is earlier than s,
\* and the same day for d and d + N; without a start date it returns day 1.
C34_RotatingCycle ==
    last_ev.op = "get_plan_for_date"
    => LET rows == plans[last_ev.chat]
           N == Cardinality(rows)
           start == plan_start[last_ev.chat]
           d == last_ev.args[1]
           expected == IF start.given THEN ((d - start.v) % N) + 1 ELSE 1
       IN  /\ expected \in 1..N
           /\ last_ev.result # NoPlan
           /\ last_ev.result = DayOf(rows, expected)
           /\ GetPlanForDate(rows, d + N, start) = last_ev.result

\* get_plan_for_date has been asked for a date earlier than the start date
\* of a plan of several days and has returned a day other than the first
C34_Witness ==
    /\ last_ev.op = "get_plan_for_date"
    /\ plan_start[last_ev.chat].given
    /\ last_ev.args[1] < plan_start[last_ev.chat].v
    /\ Cardinality(plans[last_ev.chat]) > 1
    /\ last_ev.result # NoPlan
    /\ last_ev.result[3] # PlanTitles[1]

\* C35: every job armed in range mode, by a call or by the re-arm after a
\* firing, fires at an instant that is not earlier than the instant at which
\* it was armed, also when it is armed inside today's window.
C35_FireNotInPast ==
    \A j \in jobs : j.mode = "range" => j.run_date >= j.armed_at

\* C36: the points of the additional session are in the day's points at most
\* once: a toggle of a session that is already completed, with the day's
\* points holding the session's points, does not raise the day's points, and
\* the day's points never exceed the points of the entries that are done,
\* each counted once.
C36_AdditionalOnce ==
    /\ (/\ ToggleSaved
        /\ last_ev.args[1] = "additional"
        /\ CompletedSession(last_ev.before, "additional")
        /\ last_ev.before.points
             >= PointsOf(LogExercises(last_ev.before, "additional")))
       => LogNow.points <= last_ev.before.points
    /\ \A c \in Members, d \in Days :
         logs[<<c, d>>].exists
         => logs[<<c, d>>].points
              <= PointsOf(LogExercises(logs[<<c, d>>], "main"))
                 + PointsOf(LogExercises(logs[<<c, d>>], "additional"))

\* a button of a keyboard sent before the additional session was completed
\* has been pressed again: the entry was done already, the toggle marks it
\* done and the session is reported as finished once more
C36_Witness ==
    /\ last_ev.op = "exercise_callback"
    /\ last_ev.args[1] = "additional"
    /\ last_ev.args[2] >= 0
    /\ last_ev.args[3]
    /\ last_ev.sent = <<"finished", "menu">>
    /\ CompletedSession(last_ev.before, "additional")
    /\ last_ev.before.points > 0
    /\ LogNow.points = last_ev.before.points

\* the log is open: it exists with no outcome and 0 points
OpenLog(log) == log.exists /\ log.difficulty_rate = None /\ log.points = 0

\* C37: after today_plan or scheduled_push has run for a user on the date D,
\* no log of that user of a date before D is open, however many days have
\* passed since a handler last ran for the user.
C37_NoOpenEarlierLog ==
    (/\ last_ev.op \in {"today_plan", "scheduled_push"}
     /\ last_ev.chat \in users)
    => \A d \in Days :
         d < DateOf(now) => ~OpenLog(logs[<<last_ev.chat, d>>])

\* C38: close_previous_day_if_pending leaves yesterday's stored exercise
\* lists as they are, changes nothing in a log whose points are above 0,
\* keeps an outcome tag that is set, creates no log, and touches no log but
\* yesterday's of that user: not today's and not another user's.
C38_ClosureFrame ==
    \A c \in Chats, today \in 1..(MaxDay + 1) :
      LET old == logs[<<c, today - 1>>]
          closed == ClosePreviousDayIfPending(logs, c, today)
          new == closed[<<c, today - 1>>]
      IN  /\ \A k \in DOMAIN logs : k # <<c, today - 1>> => closed[k] = logs[k]
          /\ ~old.exists => new = old
          /\ old.exists
             => /\ new.exists
                /\ new.exercises_done = old.exercises_done
                /\ old.points > 0 => new = old
                /\ old.difficulty_rate # None
                   => new.difficulty_rate = old.difficulty_rate

\* a handler has run on the day after a day that was completed with 0
\* points: the closure has written that day's log, and the log still holds
\* its exercises and the outcome "completed"; today's log exists beside it
C38_Witness ==
    /\ DateOf(now) >= 1
    /\ last_ev.op \in {"today_plan", "scheduled_push"}
    /\ LogNow.exists
    /\ logs[<<last_ev.chat, DateOf(now) - 1>>].exists
    /\ logs[<<last_ev.chat, DateOf(now) - 1>>].difficulty_rate = "completed"
    /\ logs[<<last_ev.chat, DateOf(now) - 1>>].points = 0
    /\ AllDone(LogExercises(logs[<<last_ev.chat, DateOf(now) - 1>>], "main"))

\* C39: whatever messages and callbacks arrive from whatever chats, the
\* users table holds at most MAX_USERS users: a chat that writes when
\* MAX_USERS users exist gets no user record, by /start or by a handler that
\* calls ensure_profile.
C39_AtMostMaxUsers == Cardinality(users) <= MAX_USERS

====
